---- MODULE Spec2Model ----
(***************************************************************************)
(* Model of libwyag.py: repository bootstrap and discovery, the loose      *)
(* object store (envelope, key, compressed file) and the two plumbing      *)
(* commands built on it.                                                   *)
(*                                                                         *)
(* Conventions.  Bytes are naturals, byte strings are sequences of bytes.  *)
(* A path is a sequence of components below the filesystem root <<>>; a    *)
(* component is a sequence of characters, so that a hex key can be cut     *)
(* into objects/<first two>/<rest>.  Every operation is an operator that   *)
(* takes the filesystem and returns [exc, val, fs]: the exception raised   *)
(* ("none" when it returns), the value and the filesystem it leaves.       *)
(* Python values carry their type in the field ty.                         *)
(***************************************************************************)
EXTENDS Integers, Sequences, FiniteSets, TLC

VARIABLES fs, last

vars == <<fs, last>>

(* ------------------------------ bounds --------------------------------- *)
\* hex digits of a key (40 for SHA-1)
HexLen == 3
\* length of the one long payload
LongLen == 70
\* most object files a store holds before persisting writes stop
MaxObjects == 2

(* --------------------------- byte strings ------------------------------ *)
SP == 32
NUL == 0

BLOB == <<98, 108, 111, 98>>
COMMIT == <<99, 111, 109, 109, 105, 116>>
TREE == <<116, 114, 101, 101>>
TAG == <<116, 97, 103>>

ObjTypes == {BLOB, COMMIT, TREE, TAG}

Max(a, b) == IF a > b THEN a ELSE b
Min(a, b) == IF a < b THEN a ELSE b

\* Python slice index normalisation for a sequence of length n
NormIdx(x, n) == IF x < 0 THEN Max(x + n, 0) ELSE Min(x, n)

\* raw[a:b] with 0-based, possibly negative, indices
Slice(raw, a, b) ==
  LET lo == NormIdx(a, Len(raw))
      hi == NormIdx(b, Len(raw))
  IN  IF lo >= hi THEN <<>> ELSE SubSeq(raw, lo + 1, hi)

\* raw[a:]
SliceFrom(raw, a) == Slice(raw, a, Len(raw))

\* raw.find(b, start): lowest 0-based index >= start holding b, else -1
Find(raw, b, start) ==
  LET lo == NormIdx(start, Len(raw))
      hits == {i \in (lo + 1)..Len(raw) : raw[i] = b}
  IN  IF hits = {} THEN -1
      ELSE (CHOOSE i \in hits : \A j \in hits : i <= j) - 1

\* str(n).encode('ascii')
RECURSIVE Decimal(_)
Decimal(n) ==
  IF n < 10 THEN <<48 + n>> ELSE Decimal(n \div 10) \o <<48 + (n % 10)>>

Whitespace == {9, 10, 11, 12, 13, 32}
IsDigit(b) == b >= 48 /\ b <= 57

RECURSIVE LStrip(_)
LStrip(bs) ==
  IF bs # <<>> /\ bs[1] \in Whitespace THEN LStrip(Tail(bs)) ELSE bs

RECURSIVE RStrip(_)
RStrip(bs) ==
  IF bs # <<>> /\ bs[Len(bs)] \in Whitespace
  THEN RStrip(SubSeq(bs, 1, Len(bs) - 1)) ELSE bs

RECURSIVE DigitsValue(_)
DigitsValue(ds) ==
  IF ds = <<>> THEN 0
  ELSE IF ds[Len(ds)] = 95 THEN DigitsValue(SubSeq(ds, 1, Len(ds) - 1))
  ELSE 10 * DigitsValue(SubSeq(ds, 1, Len(ds) - 1)) + (ds[Len(ds)] - 48)

\* int(bs): surrounding whitespace, an optional sign, digits with single
\* underscores between them; anything else is a ValueError
WellFormedDigits(ds) ==
  /\ ds # <<>>
  /\ IsDigit(ds[1])
  /\ IsDigit(ds[Len(ds)])
  /\ \A i \in 1..Len(ds) : IsDigit(ds[i]) \/ ds[i] = 95
  /\ \A i \in 1..(Len(ds) - 1) : ~(ds[i] = 95 /\ ds[i + 1] = 95)

IntOfDigits(negative, ds) ==
  IF ~WellFormedDigits(ds) THEN [exc |-> "ValueError", val |-> 0]
  ELSE [exc |-> "none",
        val |-> IF negative THEN 0 - DigitsValue(ds) ELSE DigitsValue(ds)]

IntOfStripped(s) ==
  IF s # <<>> /\ s[1] \in {43, 45} THEN IntOfDigits(s[1] = 45, Tail(s))
  ELSE IntOfDigits(FALSE, s)

IntParse(bs) == IntOfStripped(RStrip(LStrip(bs)))

(* ------------------------- digest and compression ---------------------- *)
HexChars == <<"0", "1", "2", "3", "4", "5", "6", "7",
              "8", "9", "a", "b", "c", "d", "e", "f">>

\* b^k mod m by repeated squaring
RECURSIVE PowMod(_, _, _)
PowMod(b, k, m) ==
  IF k = 0 THEN 1
  ELSE LET h == PowMod(b, k \div 2, m)
       IN  IF k % 2 = 0 THEN (h * h) % m ELSE (((h * h) % m) * b) % m

RECURSIVE Pow16(_)
Pow16(n) == IF n = 0 THEN 1 ELSE 16 * Pow16(n - 1)

RECURSIVE HexOf(_, _)
HexOf(n, k) ==
  IF k = 0 THEN <<>> ELSE HexOf(n \div 16, k - 1) \o <<HexChars[(n % 16) + 1]>>

\* a digest of bs modulo a prime, folded over the two halves of bs
RECURSIVE Mix(_)
Mix(bs) ==
  IF Len(bs) = 0 THEN 5
  ELSE IF Len(bs) = 1 THEN (bs[1] * 131 + 7) % 46337
  ELSE LET mid == Len(bs) \div 2
           lo == SubSeq(bs, 1, mid)
           hi == SubSeq(bs, mid + 1, Len(bs))
       IN  (Mix(lo) * PowMod(33, Len(hi), 46337) + Mix(hi) + Len(bs)) % 46337

\* hashlib.sha1(bs).hexdigest(): a fixed-length hex digest of the bytes
sha1_hexdigest(bs) == HexOf(Mix(bs) % Pow16(HexLen), HexLen)

RECURSIVE ByteSum(_)
ByteSum(bs) ==
  IF Len(bs) = 0 THEN 1
  ELSE IF Len(bs) = 1 THEN bs[1] % 251
  ELSE LET mid == Len(bs) \div 2
       IN  (ByteSum(SubSeq(bs, 1, mid)) + ByteSum(SubSeq(bs, mid + 1, Len(bs)))) % 251

\* zlib.compress: a two-byte stream header, the data, a checksum
zlib_compress(bs) == <<120, 156>> \o bs \o <<ByteSum(bs)>>

\* zlib.decompress: the data of a well-formed stream, else zlib.error
zlib_decompress(c) ==
  LET body == IF Len(c) >= 3 THEN SubSeq(c, 3, Len(c) - 1) ELSE <<>>
  IN  IF /\ Len(c) >= 3
         /\ c[1] = 120
         /\ c[2] = 156
         /\ c[Len(c)] = ByteSum(body)
      THEN [exc |-> "none", val |-> body]
      ELSE [exc |-> "zlib.error", val |-> <<>>]

(* ---------------------------- Python values ---------------------------- *)
None == [ty |-> "NoneType"]
Str(x) == [ty |-> "str", s |-> x]
Bool(b) == [ty |-> "bool", b |-> b]
Bytes(bs) == [ty |-> "bytes", s |-> bs]

Ok(v, fsys) == [exc |-> "none", val |-> v, fs |-> fsys]
Raise(e, fsys) == [exc |-> e, val |-> None, fs |-> fsys]

(* ------------------------------ filesystem ----------------------------- *)
Name(s) == <<s>>

Dir == [kind |-> "dir"]
File(d) == [kind |-> "file", data |-> d]

Parent(p) == SubSeq(p, 1, Len(p) - 1)

exists(fsys, p) == p \in DOMAIN fsys
isdir(fsys, p) == exists(fsys, p) /\ fsys[p].kind = "dir"
isfile(fsys, p) == exists(fsys, p) /\ fsys[p].kind = "file"

\* a listing that leaves out the hidden entries
listdir_visible(fsys, p) ==
  {q \in DOMAIN fsys : Len(q) = Len(p) + 1 /\ Parent(q) = p /\ q[Len(q)] # <<".git">>}

listdir(fsys, p) ==
  {q \in DOMAIN fsys : Len(q) = Len(p) + 1 /\ Parent(q) = p}

\* os.path.realpath on a path without symbolic links: "." and ".." resolved,
\* ".." of the root being the root
RECURSIVE realpath(_)
realpath(p) ==
  IF p = <<>> THEN <<>>
  ELSE LET head == realpath(Parent(p))
           c == p[Len(p)]
       IN  IF c = Name("..") THEN Parent(head)
           ELSE IF c = Name(".") THEN head
           ELSE Append(head, c)

\* os.mkdir
mkdir(fsys, p) ==
  IF exists(fsys, p) THEN Raise("FileExistsError", fsys)
  ELSE IF ~exists(fsys, Parent(p)) THEN
    IF \E k \in 0..(Len(p) - 1) : isfile(fsys, SubSeq(p, 1, k))
    THEN Raise("NotADirectoryError", fsys)
    ELSE Raise("FileNotFoundError", fsys)
  ELSE IF ~isdir(fsys, Parent(p)) THEN Raise("NotADirectoryError", fsys)
  ELSE Ok(None, (p :> Dir) @@ fsys)

\* os.makedirs: the missing ancestors first, then the directory itself
\* the last step of os.makedirs: up is the outcome for the ancestors
makedirs_leaf(up, p) ==
  IF up.exc \notin {"none", "FileExistsError"} THEN up ELSE mkdir(up.fs, p)

RECURSIVE makedirs(_, _)
makedirs(fsys, p) ==
  IF p = <<>> THEN Raise("FileExistsError", fsys)
  ELSE makedirs_leaf(IF Parent(p) # <<>> /\ ~exists(fsys, Parent(p))
                     THEN makedirs(fsys, Parent(p))
                     ELSE Ok(None, fsys),
                     p)

OpenError(fsys, pathval) ==
  IF pathval.ty # "str" THEN "TypeError"
  ELSE IF \E k \in 0..(Len(pathval.s) - 1) : isfile(fsys, SubSeq(pathval.s, 1, k))
       THEN "NotADirectoryError"
  ELSE IF ~exists(fsys, Parent(pathval.s)) THEN "FileNotFoundError"
  ELSE IF isdir(fsys, pathval.s) THEN "IsADirectoryError"
  ELSE "none"

\* the file opened for appending instead of truncated
OpenWrite_append(fsys, pathval, data) ==
  IF OpenError(fsys, pathval) # "none" THEN Raise(OpenError(fsys, pathval), fsys)
  ELSE Ok(None, [q \in DOMAIN fsys \cup {pathval.s} |->
                   IF q # pathval.s THEN fsys[q]
                   ELSE IF exists(fsys, q) THEN File(fsys[q].data \o data)
                   ELSE File(data)])

\* open(path, "w" / "wb") followed by one write and the close
OpenWrite(fsys, pathval, data) ==
  IF OpenError(fsys, pathval) # "none" THEN Raise(OpenError(fsys, pathval), fsys)
  ELSE Ok(None, [q \in DOMAIN fsys \cup {pathval.s} |->
                   IF q = pathval.s THEN File(data) ELSE fsys[q]])

\* open(path, "rb") followed by read()
OpenRead(fsys, pathval) ==
  IF OpenError(fsys, pathval) # "none" THEN Raise(OpenError(fsys, pathval), fsys)
  ELSE IF ~exists(fsys, pathval.s) THEN Raise("FileNotFoundError", fsys)
  ELSE Ok(Bytes(fsys[pathval.s].data), fsys)

(* ------------------------------ repository ----------------------------- *)
GITDIR == Name(".git")

\* repo.gitdir joined with path; a repo that is not a GitRepository has no
\* attribute gitdir
repo_path(repo, path) ==
  IF repo.ty # "GitRepository" THEN [exc |-> "AttributeError", val |-> None]
  ELSE [exc |-> "none", val |-> Str(repo.gitdir \o path)]

\* os.makedirs(path); return path: m is the outcome of the makedirs
repo_dir_made(m, p) == IF m.exc # "none" THEN m ELSE Ok(Str(p), m.fs)

\* repo_dir once path = repo_path(repo, *path) is known to be p
repo_dir_at(fsys, p, mk) ==
  IF exists(fsys, p) THEN
    IF isdir(fsys, p) THEN Ok(Str(p), fsys)
    ELSE Raise("Exception: Not a directory", fsys)
  ELSE IF mk THEN repo_dir_made(makedirs(fsys, p), p)
  ELSE Ok(None, fsys)

repo_dir(fsys, repo, path, mk) ==
  IF repo_path(repo, path).exc # "none"
    THEN Raise(repo_path(repo, path).exc, fsys)
  ELSE repo_dir_at(fsys, repo_path(repo, path).val.s, mk)

\* if repo_dir(...): return repo_path(...): d is the outcome of the repo_dir
repo_file_in(d, repo, path) ==
  IF d.exc # "none" THEN d
  ELSE IF d.val.ty = "str" THEN Ok(repo_path(repo, path).val, d.fs)
  ELSE Ok(None, d.fs)

repo_file(fsys, repo, path, mk) ==
  repo_file_in(repo_dir(fsys, repo, Parent(path), mk), repo, path)

Entry(sec, opt, v) == [section |-> sec, option |-> opt, value |-> v]

\* ConfigParser.read of one file: an unreadable file is skipped, an option
\* outside any section is a parse error
conf_read(fsys, conf, cf) ==
  IF ~isfile(fsys, cf) THEN [exc |-> "none", val |-> conf]
  ELSE IF \E i \in 1..Len(fsys[cf].data) : fsys[cf].data[i].section = ""
       THEN [exc |-> "MissingSectionHeaderError", val |-> conf]
  ELSE [exc |-> "none", val |-> conf \o fsys[cf].data]

\* ConfigParser.get
conf_get(conf, sec, opt) ==
  LET inSec == {i \in 1..Len(conf) : conf[i].section = sec}
      hits == {i \in inSec : conf[i].option = opt}
  IN  IF inSec = {} THEN [exc |-> "NoSectionError", val |-> <<>>]
      ELSE IF hits = {} THEN [exc |-> "NoOptionError", val |-> <<>>]
      ELSE [exc |-> "none",
            val |-> conf[CHOOSE i \in hits : \A j \in hits : j <= i].value]

\* the format version check omitted
unsupported_version_unchecked(vers) == FALSE

\* vers != 0
unsupported_version(vers) == vers # 0

\* os.path.isdir named but not called: a function object, always true
isdir_function_object == TRUE

\* self.worktree, self.gitdir and self.conf = configparser.ConfigParser()
GitRepository_fields(path) ==
  [ty |-> "GitRepository", worktree |-> path,
   gitdir |-> Append(path, GITDIR), conf |-> <<>>]

\* if vers != 0: raise: vers is the outcome of int(...)
GitRepository_vers(fsys, self, vers) ==
  IF vers.exc # "none" THEN Raise(vers.exc, fsys)
  ELSE IF unsupported_version(vers.val)
    THEN Raise("Exception: Unsupported repositoryformatversion", fsys)
  ELSE Ok(self, fsys)

\* vers = int(...): got is the outcome of self.conf.get(...)
GitRepository_get(fsys, self, got) ==
  IF got.exc # "none" THEN Raise(got.exc, fsys)
  ELSE GitRepository_vers(fsys, self, IntParse(got.val))

\* if not force: the version check on the configuration self holds
GitRepository_check(fsys, self, force) ==
  IF force THEN Ok(self, fsys)
  ELSE GitRepository_get(fsys, self,
                         conf_get(self.conf, "core", "repositoryformatversion"))

\* rd is the outcome of self.conf.read([cf])
GitRepository_read(fsys, self, force, rd) ==
  IF rd.exc # "none" THEN Raise(rd.exc, fsys)
  ELSE GitRepository_check(fsys, [self EXCEPT !.conf = rd.val], force)

\* if cf and os.path.exists(cf): rf is the outcome of repo_file(self, "config")
GitRepository_config(fsys, self, force, rf) ==
  IF rf.exc # "none" THEN Raise(rf.exc, fsys)
  ELSE IF rf.val.ty = "str" /\ exists(fsys, rf.val.s)
    THEN GitRepository_read(fsys, self, force,
                            conf_read(fsys, self.conf, rf.val.s))
  ELSE IF ~force THEN Raise("Exception: Configuration file missing", fsys)
  ELSE GitRepository_check(fsys, self, force)

\* GitRepository.__init__
GitRepository(fsys, path, force) ==
  IF ~(force \/ isdir_function_object)
    THEN Raise("Exception: Not a Git repository", fsys)
  ELSE GitRepository_config(fsys, GitRepository_fields(path), force,
         repo_file(fsys, GitRepository_fields(path), <<Name("config")>>, FALSE))

FALSE_TEXT == <<102, 97, 108, 115, 101>>

repo_default_config ==
  << Entry("core", "repositoryformatversion", <<48>>),
     Entry("core", "filemode", FALSE_TEXT),
     Entry("core", "bare", FALSE_TEXT) >>

DESCRIPTION_TEXT ==
  <<"Unnamed repository; edit this file 'description' to name the repository.\n">>
HEAD_TEXT == <<"ref: refs/heads/master\n">>

\* with open(rf, mode) as f: f.write(data): rf is the outcome of repo_file
write_to(rf, data) ==
  IF rf.exc # "none" THEN rf ELSE OpenWrite(rf.fs, rf.val, data)

\* with open(repo_file(repo, name), "w") as f: f.write(data)
write_repo_file(fsys, repo, name, data) ==
  write_to(repo_file(fsys, repo, <<Name(name)>>, FALSE), data)

\* the four repo_dir(..., mkdir=True) calls of repo_create, in order; d is
\* the outcome of the call before paths
RECURSIVE make_dirs_in_order(_, _, _)
make_dirs_in_order(d, repo, paths) ==
  IF d.exc # "none" \/ paths = <<>> THEN d
  ELSE make_dirs_in_order(repo_dir(d.fs, repo, Head(paths), TRUE), repo,
                          Tail(paths))

SkeletonDirs ==
  << <<Name("branches")>>, <<Name("objects")>>,
     <<Name("refs"), Name("tags")>>, <<Name("refs"), Name("heads")>> >>

\* the checks on repo.worktree, and the makedirs of a worktree that is absent
repo_create_worktree(fsys, path) ==
  IF exists(fsys, path) THEN
    IF ~isdir(fsys, path) THEN Raise("Exception: is not a directory!", fsys)
    ELSE IF listdir(fsys, path) # {} THEN Raise("Exception: is not empty!", fsys)
    ELSE Ok(None, fsys)
  ELSE makedirs(fsys, path)

\* one of the three files of repo_create, written unless a step before failed
repo_create_file(prev, repo, name, data) ==
  IF prev.exc # "none" THEN prev
  ELSE write_repo_file(prev.fs, repo, name, data)

\* return repo: written is the outcome of the last write
repo_create_return(written, repo) ==
  IF written.exc # "none" THEN written ELSE Ok(repo, written.fs)

\* repo_create after repo = GitRepository(path, True), whose outcome is g
repo_create_in(fsys, path, g) ==
  IF g.exc # "none" THEN g
  ELSE repo_create_return(
         repo_create_file(
           repo_create_file(
             repo_create_file(
               make_dirs_in_order(repo_create_worktree(fsys, path), g.val,
                                  SkeletonDirs),
               g.val, "description", DESCRIPTION_TEXT),
             g.val, "HEAD", HEAD_TEXT),
           g.val, "config", repo_default_config),
         g.val)

repo_create(fsys, path) ==
  repo_create_in(fsys, path, GitRepository(fsys, path, TRUE))

\* the marker test done with os.path.exists
has_gitdir_exists(fsys, p) == exists(fsys, Append(p, GITDIR))

\* os.path.isdir(os.path.join(path, ".git"))
has_gitdir(fsys, p) == isdir(fsys, Append(p, GITDIR))

RECURSIVE repo_find(_, _, _)
\* repo_find once path = os.path.realpath(path) is known to be p
repo_find_at(fsys, p, required) ==
  IF has_gitdir(fsys, p) THEN GitRepository(fsys, p, FALSE)
  ELSE IF realpath(Append(p, Name(".."))) = p THEN
    IF required THEN Raise("Exception: Unable to find .git directory.", fsys)
    ELSE Ok(None, fsys)
  ELSE repo_find(fsys, realpath(Append(p, Name(".."))), required)

repo_find(fsys, path, required) == repo_find_at(fsys, realpath(path), required)

(* -------------------------------- objects ------------------------------ *)
\* the classes the module defines; cls_map also names GitCommit, GitTree
\* and GitTag, which no statement of the module defines
DefinedClasses == {"GitRepository", "GitObject", "GitBlob"}

cls_map ==
  [f \in ObjTypes |->
     IF f = COMMIT THEN "GitCommit"
     ELSE IF f = TREE THEN "GitTree"
     ELSE IF f = TAG THEN "GitTag"
     ELSE "GitBlob"]

\* cls_map.get(fmt), followed by the evaluation of the class it names
cls_map_get(fmt) ==
  IF fmt \notin DOMAIN cls_map THEN [exc |-> "none", val |-> None]
  ELSE IF cls_map[fmt] \notin DefinedClasses
    THEN [exc |-> "NameError", val |-> None]
  ELSE [exc |-> "none", val |-> Str(cls_map[fmt])]

\* GitBlob(repo, data): GitObject.__init__ then GitBlob.deserialize
GitBlob(repo, data) ==
  [ty |-> "GitBlob", fmt |-> BLOB, repo |-> repo, blob_data |-> data]

\* cls = cls_map.get(fmt); the unknown-type test; cls(repo, data)
new_object(fmt, repo, data) ==
  LET cls == cls_map_get(fmt)
  IN  IF cls.exc # "none" THEN [exc |-> cls.exc, val |-> None]
      ELSE IF cls.val.ty = "NoneType"
        THEN [exc |-> "Exception: Unknown type", val |-> None]
      ELSE [exc |-> "none", val |-> GitBlob(repo, data)]

\* GitBlob.serialize
serialize(obj) == obj.blob_data

\* the bytes that are hashed and stored
envelope(fmt, data) == fmt \o <<SP>> \o Decimal(Len(data)) \o <<NUL>> \o data

\* the file name cut one character early: objects/<sha[:2]>/<sha[1:]>
object_path_overlap(sha) ==
  <<Name("objects"), Slice(sha, 0, 2), SliceFrom(sha, 1)>>

\* objects/<sha[:2]>/<sha[2:]>
object_path(sha) ==
  <<Name("objects"), Slice(sha, 0, 2), SliceFrom(sha, 2)>>

\* return sha: w is the outcome of the write of the object file
object_write_return(w, sha) ==
  IF w.exc # "none" THEN w ELSE Ok(Str(sha), w.fs)

\* if actually_write: ...: result is the envelope and sha its digest
object_write_sha(fsys, obj, result, sha, actually_write) ==
  IF ~actually_write THEN Ok(Str(sha), fsys)
  ELSE object_write_return(
         write_to(repo_file(fsys, obj.repo, object_path(sha), actually_write),
                  zlib_compress(result)),
         sha)

\* sha = hashlib.sha1(result).hexdigest()
object_write_result(fsys, obj, result, actually_write) ==
  object_write_sha(fsys, obj, result, sha1_hexdigest(result), actually_write)

object_write(fsys, obj, actually_write) ==
  object_write_result(fsys, obj, envelope(obj.fmt, serialize(obj)),
                      actually_write)

\* return cls(repo, raw[size_index + 1:]): obj is the outcome of the call
object_read_return(fsys, obj) ==
  IF obj.exc # "none" THEN Raise(obj.exc, fsys) ELSE Ok(obj.val, fsys)

\* the length check, size being the outcome of int(raw[fmt_index:size_index])
object_read_size(fsys, repo, raw, fmt_index, size_index, size) ==
  IF size.exc # "none" THEN Raise(size.exc, fsys)
  ELSE IF size.val # Len(raw) - size_index - 1
    THEN Raise("Exception: Malformed object: bad length", fsys)
  ELSE object_read_return(fsys,
         new_object(Slice(raw, 0, fmt_index), repo,
                    SliceFrom(raw, size_index + 1)))

\* size_index = raw.find(b'\x00', fmt_index) and the parse of the size
object_read_fmt(fsys, repo, raw, fmt_index, size_index) ==
  object_read_size(fsys, repo, raw, fmt_index, size_index,
                   IntParse(Slice(raw, fmt_index, size_index)))

\* fmt_index = raw.find(b' '): raw is the decompressed content
object_read_raw(fsys, repo, raw, fmt_index) ==
  object_read_fmt(fsys, repo, raw, fmt_index, Find(raw, NUL, fmt_index))

\* raw = zlib.decompress(f.read()): z is the outcome of the decompression
object_read_z(fsys, repo, z) ==
  IF z.exc # "none" THEN Raise(z.exc, fsys)
  ELSE object_read_raw(fsys, repo, z.val, Find(z.val, SP, 0))

\* f is the outcome of the open and the read
object_read_file(fsys, repo, f) ==
  IF f.exc # "none" THEN f
  ELSE object_read_z(fsys, repo, zlib_decompress(f.val.s))

\* with open(path, "rb") as f: rf is the outcome of repo_file
object_read_open(fsys, repo, rf) ==
  IF rf.exc # "none" THEN rf
  ELSE object_read_file(fsys, repo, OpenRead(rf.fs, rf.val))

object_read(fsys, repo, sha) ==
  object_read_open(fsys, repo, repo_file(fsys, repo, object_path(sha), FALSE))

object_find(repo, name, fmt, follow) == name

\* repo is not None
is_not_None(v) == v.ty # "NoneType"

\* return object_write(obj, repo is not None): obj is the outcome of
\* cls(repo, data)
object_hash_obj(fsys, obj, repo) ==
  IF obj.exc # "none" THEN Raise(obj.exc, fsys)
  ELSE object_write(fsys, obj.val, is_not_None(repo))

object_hash(fsys, data, fmt, repo) ==
  object_hash_obj(fsys, new_object(fmt, repo, data), repo)

\* sha = object_hash(fd, args.type.encode(), repo is not None): found is the
\* outcome of the if args.write: ... else: repo = None
cmd_hash_object_in(fsys, found, type, data) ==
  IF found.exc # "none" THEN found
  ELSE object_hash(fsys, data, type, Bool(is_not_None(found.val)))

\* hash-object: data is the content of the file args.path names
cmd_hash_object(fsys, cwd, type, write, data) ==
  cmd_hash_object_in(fsys,
    IF write THEN repo_find(fsys, cwd, TRUE) ELSE Ok(None, fsys), type, data)

\* sys.stdout.buffer.write(obj.serialize()): obj is the outcome of object_read
cat_file_out(obj) ==
  IF obj.exc # "none" THEN obj ELSE Ok(Bytes(serialize(obj.val)), obj.fs)

\* val is what is written to standard output
cat_file(fsys, repo, name, fmt) ==
  cat_file_out(object_read(fsys, repo, object_find(repo, name, fmt, TRUE)))

\* cat_file(repo, args.object, fmt=...): found is the outcome of repo_find()
cmd_cat_file_in(fsys, found, name, type) ==
  IF found.exc # "none" THEN found
  ELSE cat_file(fsys, found.val, name, type)

cmd_cat_file(fsys, cwd, name, type) ==
  cmd_cat_file_in(fsys, repo_find(fsys, cwd, TRUE), name, type)

(* ---------------------------- inputs and Init -------------------------- *)
\* the worktree the operations are tried on, and directories below it
W == <<Name("home"), Name("w")>>
WGit == Append(W, GITDIR)
WConfig == Append(WGit, Name("config"))
SubA == Append(W, Name("a"))
SubAB == Append(SubA, Name("b"))
SubAGit == Append(SubA, GITDIR)

FsOf(S) == [p \in {e[1] : e \in S} |-> (CHOOSE e \in S : e[1] = p)[2]]

RootOnly == {<<<<>>, Dir>>}
WithW == RootOnly \cup {<<Parent(W), Dir>>, <<W, Dir>>}
WithGit == WithW \cup {<<WGit, Dir>>}

ConfigOf(v) == <<Entry("core", "repositoryformatversion", v)>>

\* what the worktree path may hold before the first operation
Layouts ==
  [ absent    |-> RootOnly,
    emptydir  |-> WithW,
    file      |-> RootOnly \cup {<<Parent(W), Dir>>, <<W, File(<<104>>)>>},
    nonempty  |-> WithW \cup {<<Append(W, Name("notes")), File(<<104>>)>>},
    gitfile   |-> WithW \cup {<<WGit, File(<<104>>)>>},
    noconfig  |-> WithGit,
    configdir |-> WithGit \cup {<<WConfig, Dir>>},
    v1        |-> WithGit \cup {<<WConfig, File(ConfigOf(<<49>>))>>},
    badint    |-> WithGit \cup {<<WConfig, File(ConfigOf(<<120>>))>>},
    nocore    |-> WithGit \cup {<<WConfig, File(<<Entry("user", "name", <<120>>)>>)>>},
    badini    |-> WithGit \cup {<<WConfig, File(<<Entry("", "name", <<120>>)>>)>>} ]

\* blob contents: empty, one byte, both separators of the envelope
Payloads == {<<>>, <<104>>, <<NUL, SP>>}

KeyOf(fmt, data) == sha1_hexdigest(envelope(fmt, data))

\* a name that shares the first two characters of key and is not key
Sibling(key) ==
  SubSeq(key, 1, Len(key) - 1) \o <<IF key[Len(key)] = "0" THEN "1" ELSE "0">>

\* the names given to read, find and cat-file
Keys ==
  {KeyOf(BLOB, d) : d \in Payloads}
    \cup {KeyOf(TREE, <<>>), Sibling(KeyOf(BLOB, <<104>>))}

StartPaths ==
  { Parent(W), W, SubAB, Append(SubAB, Name("..")),
    Append(WGit, Name("objects")) }

\* the directory the commands are run in, and the files hash-object is given
Cwd == SubAB
CmdData == {<<>>, <<104>>}

\* the handles a caller can hold: GitRepository(W) where that succeeds
HandleOf(g) == IF g.exc = "none" THEN {g.val} ELSE {}

ValidRepos(fsys) == HandleOf(GitRepository(fsys, W, FALSE))

IsObjectFile(fsys, p) ==
  /\ Len(p) = Len(WGit) + 3
  /\ SubSeq(p, 1, Len(WGit) + 1) = Append(WGit, Name("objects"))
  /\ isfile(fsys, p)

ObjectFiles(fsys) == {p \in DOMAIN fsys : IsObjectFile(fsys, p)}

Start == [op |-> "start", arg |-> None, exc |-> "none", val |-> None]

Init ==
  /\ fs \in {FsOf(Layouts[k]) : k \in DOMAIN Layouts}
  /\ last = Start

(* -------------------------------- actions ------------------------------ *)
Done(op, arg, r) ==
  /\ fs' = r.fs
  /\ last' = [op |-> op, arg |-> arg, exc |-> r.exc, val |-> r.val]

RepoCreate(path) ==
  Done("repo_create", [path |-> path], repo_create(fs, path))

Construct(path) ==
  Done("GitRepository", [path |-> path], GitRepository(fs, path, FALSE))

RepoFind(start, required) ==
  Done("repo_find", [start |-> start, required |-> required],
       repo_find(fs, start, required))

\* an operation that may add an object file, taken while the store is small
DoneWithin(op, arg, r) ==
  /\ Cardinality(ObjectFiles(r.fs)) <= MaxObjects
  /\ Done(op, arg, r)

ObjectWrite(repo, data, aw) ==
  DoneWithin("object_write",
             [repo |-> repo, data |-> data, aw |-> aw,
              existed |-> /\ repo.ty = "GitRepository"
                          /\ exists(fs, repo.gitdir
                                          \o object_path(KeyOf(BLOB, data)))],
             object_write(fs, GitBlob(repo, data), aw))

ObjectRead(repo, sha) ==
  Done("object_read", [repo |-> repo, sha |-> sha], object_read(fs, repo, sha))

ObjectFind(repo, name) ==
  Done("object_find", [repo |-> repo, name |-> name],
       Ok(Str(object_find(repo, name, None, TRUE)), fs))

CmdHashObject(cwd, type, write, data) ==
  DoneWithin("cmd_hash_object",
             [cwd |-> cwd, type |-> type, write |-> write, data |-> data],
             cmd_hash_object(fs, cwd, type, write, data))

CmdCatFile(cwd, name, type) ==
  Done("cmd_cat_file", [cwd |-> cwd, name |-> name, type |-> type],
       cmd_cat_file(fs, cwd, name, type))

\* the user creating a directory in the worktree
Mkdir(d) ==
  /\ mkdir(fs, d).exc = "none"
  /\ Done("mkdir", [path |-> d], mkdir(fs, d))

Next ==
  \/ RepoCreate(W)
  \/ Construct(W)
  \/ \E start \in StartPaths, required \in BOOLEAN : RepoFind(start, required)
  \/ \E repo \in ValidRepos(fs) \cup {None}, data \in Payloads, aw \in BOOLEAN :
       ObjectWrite(repo, data, aw)
  \/ \E repo \in ValidRepos(fs), sha \in Keys : ObjectRead(repo, sha)
  \/ \E repo \in ValidRepos(fs), name \in Keys : ObjectFind(repo, name)
  \/ \E type \in ObjTypes, write \in BOOLEAN, data \in CmdData :
       CmdHashObject(Cwd, type, write, data)
  \/ \E name \in Keys : CmdCatFile(Cwd, name, BLOB)
  \/ \E d \in {SubA, SubAB, SubAGit} : Mkdir(d)

Spec == Init /\ [][Next]_vars

(* ------------------- the store damaged from outside -------------------- *)
LongPayload == [i \in 1..LongLen |-> 104]

\* blob contents stored before the damage: one byte, and a long payload
\* whose length takes two digits
EnvPayloads == {<<104>>, LongPayload}

EnvKeys == {KeyOf(BLOB, d) : d \in EnvPayloads}

StoredForms == {zlib_compress(envelope(BLOB, d)) : d \in EnvPayloads}

Intact(fsys, p) == fsys[p].data \in StoredForms

\* a well-formed envelope cut short, or with a byte added at its end
Corruptions(raw) ==
  {SubSeq(raw, 1, k) : k \in 0..(Len(raw) - 1)}
    \cup {Append(raw, b) : b \in {NUL, 104}}

\* one object file replaced by the compressed form of a damaged envelope
Tamper(p, bad) ==
  /\ fs' = [fs EXCEPT ![p] = File(zlib_compress(bad))]
  /\ last' = [op |-> "tamper", arg |-> [path |-> p], exc |-> "none", val |-> None]

InitEnv ==
  /\ fs = FsOf(Layouts.absent)
  /\ last = Start

NextEnv ==
  \/ RepoCreate(W)
  \/ \E repo \in ValidRepos(fs), data \in EnvPayloads :
       ObjectWrite(repo, data, TRUE)
  \/ \E repo \in ValidRepos(fs), sha \in EnvKeys : ObjectRead(repo, sha)
  \/ /\ \A q \in ObjectFiles(fs) : Intact(fs, q)
     /\ \E p \in ObjectFiles(fs) :
          \E bad \in Corruptions(zlib_decompress(fs[p].data).val) : Tamper(p, bad)

SpecEnv == InitEnv /\ [][NextEnv]_vars

(* ------------------------ vocabulary of the claims --------------------- *)
ObjectPathIn(repo, sha) == repo.gitdir \o object_path(sha)

\* raw is <type> SP <decimal length> NUL <payload> with that many payload bytes
WellFormedEnvelope(raw) ==
  \E fmt \in ObjTypes : \E n \in 0..Len(raw) :
    LET header == fmt \o <<SP>> \o Decimal(n) \o <<NUL>>
    IN  /\ Len(raw) = Len(header) + n
        /\ SubSeq(raw, 1, Len(header)) = header

SkeletonDirPaths(t) ==
  { Append(t, GITDIR) } \cup
  { Append(t, GITDIR) \o d : d \in
      { <<Name("branches")>>, <<Name("objects")>>, <<Name("refs")>>,
        <<Name("refs"), Name("tags")>>, <<Name("refs"), Name("heads")>> } }

SkeletonFilePaths(t) ==
  { Append(Append(t, GITDIR), Name(n)) : n \in {"description", "HEAD", "config"} }

Ancestors(t) == {SubSeq(t, 1, k) : k \in 0..Len(t)}

\* the store skeleton of repo_create is in place below t
Skeleton(fsys, t) ==
  /\ \A d \in SkeletonDirPaths(t) \cup {t} : isdir(fsys, d)
  /\ \A f \in SkeletonFilePaths(t) : isfile(fsys, f)
  /\ fsys[Append(Append(t, GITDIR), Name("config"))].data = repo_default_config
  /\ fsys[Append(Append(t, GITDIR), Name("HEAD"))].data = HEAD_TEXT
  /\ fsys[Append(Append(t, GITDIR), Name("description"))].data = DESCRIPTION_TEXT

\* the configuration file of worktree t declares repositoryformatversion 0
DeclaresVersion0(fsys, t) ==
  LET cf == Append(Append(t, GITDIR), Name("config"))
  IN  /\ isfile(fsys, cf)
      /\ \E i \in 1..Len(fsys[cf].data) :
           /\ fsys[cf].data[i].section = "core"
           /\ fsys[cf].data[i].option = "repositoryformatversion"
           /\ IntParse(fsys[cf].data[i].value) = [exc |-> "none", val |-> 0]

IsPrefix(a, b) == Len(a) <= Len(b) /\ SubSeq(b, 1, Len(a)) = a

(* -------------------------------- claims ------------------------------- *)
\* C1: in every initialized repository, for each of the four object types
\* and every payload, an object of that type can be built, written with
\* persistence, and read back under the returned key as an object of the
\* same type with the same serialized payload.
C1_RoundTripAllVariants ==
  \A repo \in ValidRepos(fs) : \A fmt \in ObjTypes : \A data \in Payloads :
    LET o == new_object(fmt, repo, data)
        w == object_write(fs, o.val, TRUE)
        r == object_read(w.fs, repo, w.val.s)
    IN  /\ o.exc = "none"
        /\ w.exc = "none"
        /\ r.exc = "none"
        /\ r.val.fmt = fmt
        /\ serialize(r.val) = data

\* C2: a non-persisting object_write, and hash-object run without -w for a
\* type whose objects can be built, returns the key of the envelope of that
\* type and payload, does not fail, and leaves the filesystem as it was.
C2_HashWithoutWriteReturnsKey ==
  [][ /\ (last'.op = "object_write" /\ ~last'.arg.aw) =>
           /\ last'.exc = "none"
           /\ last'.val = Str(KeyOf(BLOB, last'.arg.data))
           /\ fs' = fs
      /\ ( /\ last'.op = "cmd_hash_object"
           /\ ~last'.arg.write
           /\ new_object(last'.arg.type, None, last'.arg.data).exc = "none" ) =>
           /\ last'.exc = "none"
           /\ last'.val = Str(KeyOf(last'.arg.type, last'.arg.data))
           /\ fs' = fs ]_vars

\* C3: a persisting object_write of an object whose file is already in the
\* store returns the object's key, does not raise, and leaves every file
\* and directory, and the content of each file, as it was.
C3_SecondWriteIsNoOp ==
  [][ ( /\ last'.op = "object_write"
        /\ last'.arg.aw
        /\ last'.arg.repo.ty = "GitRepository"
        /\ LET path == ObjectPathIn(last'.arg.repo, KeyOf(BLOB, last'.arg.data))
           IN  /\ isfile(fs, path)
               /\ fs[path].data = zlib_compress(envelope(BLOB, last'.arg.data)) ) =>
      ( /\ last'.exc = "none"
        /\ last'.val = Str(KeyOf(BLOB, last'.arg.data))
        /\ fs' = fs ) ]_vars

C3_Witness ==
  /\ last.op = "object_write"
  /\ last.arg.aw
  /\ last.arg.existed
  /\ last.exc = "none"
  /\ isfile(fs, ObjectPathIn(last.arg.repo, last.val.s))

\* C4: object_read of a key that has no object file fails with
\* ObjectNotFound, whether or not the fan-out directory exists.
C4_ReadOfMissingKeyIsObjectNotFound ==
  ( /\ last.op = "object_read"
    /\ ~exists(fs, ObjectPathIn(last.arg.repo, last.arg.sha)) ) =>
  last.exc = "ObjectNotFound"

\* C5: object_find of a name that is not the key of a stored object fails
\* with ObjectNotFound instead of returning a key.
C5_FindChecksExistence ==
  ( /\ last.op = "object_find"
    /\ ~exists(fs, ObjectPathIn(last.arg.repo, last.arg.name)) ) =>
  last.exc = "ObjectNotFound"

\* C6: object_read of a stored envelope that was cut short or padded, so
\* that its declared length is not the number of payload bytes after the
\* NUL (or the space or the NUL is lost), fails on the length field, by the
\* bad-length check or by the parse of the length, and returns no object.
C6_DamagedEnvelopeIsRejected ==
  ( /\ last.op = "object_read"
    /\ isfile(fs, ObjectPathIn(last.arg.repo, last.arg.sha))
    /\ LET z == zlib_decompress(fs[ObjectPathIn(last.arg.repo, last.arg.sha)].data)
       IN  z.exc = "none" /\ ~WellFormedEnvelope(z.val) ) =>
  last.exc \in {"Exception: Malformed object: bad length", "ValueError"}

\* C7: repo_create on a target that does not exist or is an empty directory
\* succeeds and adds exactly the target, its missing ancestors and the store
\* skeleton; on a populated target, a non-directory or a non-empty directory
\* it fails and leaves the filesystem as it was.
C7_CreateAllOrNothing ==
  [][ last'.op = "repo_create" =>
      LET t == last'.arg.path
      IN  IF ~exists(fs, t) \/ (isdir(fs, t) /\ listdir(fs, t) = {})
          THEN /\ last'.exc = "none"
               /\ Skeleton(fs', t)
               /\ DOMAIN fs' = DOMAIN fs \cup Ancestors(t)
                                 \cup SkeletonDirPaths(t) \cup SkeletonFilePaths(t)
               /\ \A q \in DOMAIN fs : fs'[q] = fs[q]
          ELSE /\ last'.exc # "none"
               /\ fs' = fs ]_vars

\* repo_create called again on the worktree it populated, and refused
C7_Witness ==
  /\ last.op = "repo_create"
  /\ last.exc = "Exception: is not empty!"
  /\ Skeleton(fs, last.arg.path)

\* C8: GitRepository(path) without force succeeds only if path/.git is a
\* directory and its configuration declares repositoryformatversion 0.
C8_HandleOnlyForSupportedStore ==
  (last.op = "GitRepository" /\ last.exc = "none") =>
    /\ isdir(fs, Append(last.arg.path, GITDIR))
    /\ DeclaresVersion0(fs, last.arg.path)
    /\ last.val.worktree = last.arg.path
    /\ last.val.gitdir = Append(last.arg.path, GITDIR)

C8_Witness ==
  /\ last.op = "GitRepository"
  /\ last.exc = "none"
  /\ last.val.ty = "GitRepository"

\* C9: repo_find from a directory at or below the worktree of an initialized
\* repository, with no other .git directory on the way up, returns the
\* handle of that worktree, the one found from the worktree itself; where
\* no directory from the start up to the root holds a .git directory it
\* raises not-found when required and returns None when optional.
C9_FindWalksUp ==
  last.op = "repo_find" =>
    LET s == realpath(last.arg.start)
    IN  /\ ( /\ Skeleton(fs, W)
             /\ isdir(fs, s)
             /\ IsPrefix(W, s)
             /\ \A k \in (Len(W) + 1)..Len(s) :
                  ~isdir(fs, Append(SubSeq(s, 1, k), GITDIR)) ) =>
             /\ last.exc = "none"
             /\ last.val.ty = "GitRepository"
             /\ last.val.worktree = W
             /\ last.val.gitdir = WGit
             /\ last.val = repo_find(fs, W, last.arg.required).val
        /\ (\A k \in 0..Len(s) : ~isdir(fs, Append(SubSeq(s, 1, k), GITDIR))) =>
             IF last.arg.required
             THEN last.exc = "Exception: Unable to find .git directory."
             ELSE last.exc = "none" /\ last.val.ty = "NoneType"

\* repo_find from the nested directory, two levels below the worktree
C9_Witness ==
  /\ last.op = "repo_find"
  /\ last.arg.start = SubAB
  /\ isdir(fs, SubAB)
  /\ Skeleton(fs, W)
  /\ ~isdir(fs, SubAGit)
  /\ last.exc = "none"
  /\ last.val.ty = "GitRepository"

\* C10: every file below objects/ lies at objects/<xx>/<rest> and holds the
\* compressed form of a well-formed envelope whose digest is xx followed
\* by rest.
C10_StoreIntegrity ==
  \A p \in DOMAIN fs :
    (isfile(fs, p) /\ IsPrefix(Append(WGit, Name("objects")), p)) =>
      LET z == zlib_decompress(fs[p].data)
      IN  /\ Len(p) = Len(WGit) + 3
          /\ z.exc = "none"
          /\ WellFormedEnvelope(z.val)
          /\ sha1_hexdigest(z.val) = p[Len(p) - 1] \o p[Len(p)]

C10_Witness ==
  /\ Cardinality(ObjectFiles(fs)) >= 2
  /\ last.op = "object_read"
  /\ last.exc = "none"

====
